---- MODULE Spec2Model ----
(***************************************************************************)
(* Model of the package recursive_phase_solids: the phase rotor, the       *)
(* stereographic projection, the catalog of Platonic solids and the        *)
(* geometric verifiers.                                                    *)
(*                                                                         *)
(* Numbers.  A Python float is modelled as a fixed-point integer:          *)
(* coordinates, distances, norms and ratios count units of 1/SCALE, and a  *)
(* tolerance counts units of 1/TOLSCALE, so that the default tolerances    *)
(* 1e-6, 1e-5 and 1e-3 are the integers 1, 10 and 1000.  A comparison      *)
(* between a distance and a tolerance first brings the distance to         *)
(* tolerance units (InTol).  A square root and a quotient are rounded      *)
(* toward zero, as a function of their arguments alone, so equal inputs    *)
(* give equal results, as in the floating-point code.  The irrational      *)
(* coordinates of the icosahedron and the dodecahedron are PHI and 1/PHI   *)
(* rounded to the unit, so the distances between their vertices carry an   *)
(* error of up to one unit, which the floats do not: of these two solids   *)
(* only the coordinates, their ratios and their number are relied on.      *)
(*                                                                         *)
(* The caller.  The package keeps one piece of state, the dict             *)
(* PLATONIC_SOLIDS; everything else is the caller's: the arguments it      *)
(* passes, and the list object it was returned.  Spec calls the verifiers  *)
(* on a point set and a tolerance drawn at the start; SpecRotor, SpecProj  *)
(* and SpecGenerate call one function each on arguments drawn at each      *)
(* call; SpecCatalog adds to generate_platonic_solid a caller that writes  *)
(* into the list it was returned.                                          *)
(***************************************************************************)
EXTENDS Integers, Sequences, FiniteSets, TLC

VARIABLES
    PLATONIC_SOLIDS,  \* the module-level dict of recursive_phase.py: key -> list of vertices
    held,             \* the list object the caller holds: "none", or the key whose list it is
    points,           \* the point set the caller passes to the verifiers
    tol,              \* the tolerance the caller passes to the verifiers
    call,             \* the latest public call: its arguments and its outcome (Pending while it runs)
    fv                \* the activation of full_verify: its position, arguments and locals

vars == <<PLATONIC_SOLIDS, held, points, tol, call, fv>>

----------------------------------------------------------------------------
(* Fixed-point arithmetic *)

SCALE == 10^4
TOLSCALE == 10^6

\* a distance, norm or ratio (units of 1/SCALE) in tolerance units (1/TOLSCALE)
InTol(d) == d * (TOLSCALE \div SCALE)

Abs(x) == IF x < 0 THEN -x ELSE x

RECURSIVE SqrtSearch(_, _, _)
SqrtSearch(n, lo, hi) ==
    IF lo >= hi THEN lo
    ELSE LET mid == (lo + hi + 1) \div 2
         IN  IF mid * mid <= n THEN SqrtSearch(n, mid, hi)
                               ELSE SqrtSearch(n, lo, mid - 1)

\* math.sqrt / np.sqrt on a non-negative argument
Sqrt(n) == SqrtSearch(n, 0, IF n < 46340 THEN n ELSE 46340)

\* Python's true division a / b of two numbers whose quotient is counted in
\* units of 1/SCALE; b = 0 raises ZeroDivisionError and is the caller's case
Quot(a, b) ==
    LET q == (Abs(a) * SCALE) \div Abs(b)
    IN  IF (a < 0) = (b < 0) THEN q ELSE -q

Min(S) == CHOOSE m \in S : \A x \in S : m <= x
Max(S) == CHOOSE m \in S : \A x \in S : x <= m

RECURSIVE SumSeq(_)
SumSeq(s) == IF s = <<>> THEN 0 ELSE Head(s) + SumSeq(Tail(s))

Range(s) == {s[i] : i \in DOMAIN s}

\* outcomes of a call: a returned value, or a raised exception; Pending
\* while the call runs
Pending == [kind |-> "pending", value |-> FALSE, error |-> "", ref |-> "none"]
Return(v) == [kind |-> "return", value |-> v, error |-> "", ref |-> "none"]
Raise(e, v) == [kind |-> "raise", value |-> v, error |-> e, ref |-> "none"]

----------------------------------------------------------------------------
(* recursive_phase.py: PHI and the catalog *)

\* PHI = (1 + math.sqrt(5)) / 2
PHI == (SCALE + Sqrt(5 * SCALE * SCALE)) \div 2

\* 1 / PHI
InvPHI == Quot(SCALE, PHI)

One == SCALE

SolidKeys == {"tetrahedron", "cube", "octahedron", "icosahedron", "dodecahedron"}

CubeVertices ==
    << <<One, One, One>>, <<One, One, -One>>, <<One, -One, One>>, <<One, -One, -One>>,
       <<-One, One, One>>, <<-One, One, -One>>, <<-One, -One, One>>, <<-One, -One, -One>> >>

\* the dict literal PLATONIC_SOLIDS, as the module builds it at import
HardcodedSolids ==
    [k \in SolidKeys |->
        CASE k = "tetrahedron" ->
               << <<One, One, One>>, <<-One, -One, One>>, <<-One, One, -One>>, <<One, -One, -One>> >>
          [] k = "cube" -> CubeVertices
          [] k = "octahedron" ->
               << <<One, 0, 0>>, <<-One, 0, 0>>, <<0, One, 0>>, <<0, -One, 0>>,
                  <<0, 0, One>>, <<0, 0, -One>> >>
          [] k = "icosahedron" ->
               << <<0, One, PHI>>, <<0, -One, PHI>>, <<0, One, -PHI>>, <<0, -One, -PHI>>,
                  <<One, PHI, 0>>, <<-One, PHI, 0>>, <<One, -PHI, 0>>, <<-One, -PHI, 0>>,
                  <<PHI, 0, One>>, <<-PHI, 0, One>>, <<PHI, 0, -One>>, <<-PHI, 0, -One>> >>
          [] k = "dodecahedron" ->
               CubeVertices \o
               << <<0, InvPHI, PHI>>, <<0, -InvPHI, PHI>>, <<0, InvPHI, -PHI>>, <<0, -InvPHI, -PHI>>,
                  <<PHI, 0, InvPHI>>, <<-PHI, 0, InvPHI>>, <<PHI, 0, -InvPHI>>, <<-PHI, 0, -InvPHI>>,
                  <<InvPHI, PHI, 0>>, <<-InvPHI, PHI, 0>>, <<InvPHI, -PHI, 0>>, <<-InvPHI, -PHI, 0>> >>]

----------------------------------------------------------------------------
(* Distances *)

SqNorm(v) == v[1] * v[1] + v[2] * v[2] + v[3] * v[3]

\* math.dist(p, q) and np.linalg.norm(p - q)
Dist(p, q) == Sqrt(SqNorm(<<p[1] - q[1], p[2] - q[2], p[3] - q[3]>>))

\* itertools.combinations(range(n), 2), and the loops "for i / for j in
\* range(i + 1, n)": the index pairs i < j in lexicographic order
RECURSIVE PairsFrom(_, _)
PairsFrom(i, n) ==
    IF i >= n THEN <<>>
    ELSE [k \in 1..(n - i) |-> <<i, i + k>>] \o PairsFrom(i + 1, n)

pairwise_distances(pts) ==
    LET pairs == PairsFrom(1, Len(pts))
    IN  [k \in 1..Len(pairs) |-> Dist(pts[pairs[k][1]], pts[pairs[k][2]])]

----------------------------------------------------------------------------
(* recursive_phase.py: verify_edge_lengths (the wide mode) *)

\* CandidateBand with the band as wide as the tolerance only
CandidateBandNarrow(tolerance) == tolerance

\* the width of the candidate band above min_dist: 10 * tolerance
CandidateBand(tolerance) == 10 * tolerance

verify_edge_lengths(pts, tolerance) ==
    IF Len(pts) < 2 THEN Return(TRUE)
    ELSE
      LET distances == pairwise_distances(pts)
          min_dist == Min(Range(distances))
          InBand(d) == InTol(d) <= InTol(min_dist) + CandidateBand(tolerance)
          candidate_edges == SelectSeq(distances, InBand)
      IN  IF candidate_edges = <<>> THEN Return(TRUE)
          ELSE
            LET expected == Min(Range(candidate_edges))
                max_dev == Max({Abs(d - expected) : d \in Range(candidate_edges)})
            IN  IF InTol(max_dev) <= tolerance THEN Return(TRUE) ELSE Return(FALSE)

----------------------------------------------------------------------------
(* verify.py *)

verify_edge_uniformity(pts, tolerance) ==
    LET dists == pairwise_distances(pts)
    IN  IF dists = <<>> THEN Return(TRUE)
        ELSE
          LET min_dist == Min(Range(dists))
              edge_diffs == [k \in DOMAIN dists |-> Abs(dists[k] - min_dist)]
              passed == \A k \in DOMAIN edge_diffs : InTol(edge_diffs[k]) < tolerance
          IN  Return(passed)

\* np.asarray of an empty list has shape (0,), and np.linalg.norm(pts, axis=1)
\* raises AxisError on it.  radius is the mean of the norms, the rational
\* SumSeq(norms) / n: |r - radius| < tolerance is compared with both sides
\* multiplied by n.
verify_on_sphere(pts, tolerance) ==
    IF pts = <<>> THEN Raise("AxisError", FALSE)
    ELSE
      LET n == Len(pts)
          norms == [i \in 1..n |-> Sqrt(SqNorm(pts[i]))]
          total == SumSeq(norms)
          passed == \A i \in 1..n : InTol(Abs(n * norms[i] - total)) < n * tolerance
      IN  Return(passed)

\* phi = (1 + np.sqrt(5)) / 2
phi == (SCALE + Sqrt(5 * SCALE * SCALE)) \div 2

\* The loop of check_golden_ratios from the i-th point on.  The list
\* [abs(abs(x / y) - phi), abs(abs(y / z) - phi), abs(abs(x / z) - phi)] is built
\* whole before any(...) reads it: a zero y or z raises ZeroDivisionError.
RECURSIVE GoldenScan(_, _, _)
GoldenScan(pts, i, tolerance) ==
    IF i > Len(pts) THEN Return(FALSE)
    ELSE
      LET x == pts[i][1]
          y == pts[i][2]
          z == pts[i][3]
      IN  IF y = 0 \/ z = 0 THEN Raise("ZeroDivisionError", FALSE)
          ELSE
            LET ratios == << Abs(Abs(Quot(x, y)) - phi),
                             Abs(Abs(Quot(y, z)) - phi),
                             Abs(Abs(Quot(x, z)) - phi) >>
            IN  IF \E k \in 1..3 : InTol(ratios[k]) < tolerance
                  THEN Return(TRUE)
                  ELSE GoldenScan(pts, i + 1, tolerance)

check_golden_ratios(pts, tolerance) == GoldenScan(pts, 1, tolerance)

\* the defaults of the tolerance parameters
DefaultLengthsTolerance == 10
DefaultUniformityTolerance == 1
DefaultGoldenTolerance == 1000
DefaultFullTolerance == 1

\* GoldenToleranceOf with full_verify's tolerance handed on
GoldenToleranceGiven(tolerance) == tolerance

\* full_verify calls check_golden_ratios(points): the tolerance the golden-ratio
\* check runs at is that function's default, whatever full_verify was given
GoldenToleranceOf(tolerance) == DefaultGoldenTolerance

----------------------------------------------------------------------------
(* The caller of the verifiers: inputs *)

MaxPts == 3

\* the points a caller builds its own point sets from: the origin, points on
\* an axis one unit of 1/SCALE away from a common spacing, a point with no
\* zero coordinate and no golden ratio, and points whose first ratio is near
\* phi and is -phi
SamplePoints ==
    { <<0, 0, 0>>, <<One, 0, 0>>, <<2 * One + 1, 0, 0>>, <<One, One, One>>,
      <<PHI + 5, One, One>>, <<-PHI, One, -One>> }

PointSets ==
    {HardcodedSolids[k] : k \in SolidKeys}
      \cup UNION {[1..n -> SamplePoints] : n \in 0..MaxPts}

Tolerances ==
    {-1, 0, DefaultUniformityTolerance, DefaultLengthsTolerance, 50, DefaultGoldenTolerance}

Idle == [op |-> "idle"]

FvIdle ==
    [pc |-> "idle", tolerance |-> 0, check_phi |-> FALSE,
     r1 |-> FALSE, r2 |-> FALSE, r3 |-> FALSE, ran |-> <<>>]

\* one check full_verify has called: the function, the tolerance it was
\* given and what came back
Ran(fn, tolerance, outcome) == [fn |-> fn, tolerance |-> tolerance, outcome |-> outcome]

\* the record of a full_verify call, with the locals f it has reached
FullVerifyRecord(f, outcome) ==
    [op |-> "full_verify", tolerance |-> f.tolerance, check_phi |-> f.check_phi,
     r1 |-> f.r1, r2 |-> f.r2, r3 |-> f.r3, ran |-> f.ran, outcome |-> outcome]

Init ==
    /\ PLATONIC_SOLIDS = HardcodedSolids
    /\ held = "none"
    /\ points \in PointSets
    /\ tol \in Tolerances
    /\ call = Idle
    /\ fv = FvIdle

----------------------------------------------------------------------------
(* The verifiers, called on the caller's point set *)

CallVerifyEdgeLengths ==
    /\ fv.pc = "idle"
    /\ call' = [op |-> "verify_edge_lengths", tolerance |-> tol,
                outcome |-> verify_edge_lengths(points, tol)]
    /\ UNCHANGED <<PLATONIC_SOLIDS, held, points, tol, fv>>

CallVerifyEdgeUniformity ==
    /\ fv.pc = "idle"
    /\ call' = [op |-> "verify_edge_uniformity", tolerance |-> tol,
                outcome |-> verify_edge_uniformity(points, tol)]
    /\ UNCHANGED <<PLATONIC_SOLIDS, held, points, tol, fv>>

CallVerifyOnSphere ==
    /\ fv.pc = "idle"
    /\ call' = [op |-> "verify_on_sphere", tolerance |-> tol,
                outcome |-> verify_on_sphere(points, tol)]
    /\ UNCHANGED <<PLATONIC_SOLIDS, held, points, tol, fv>>

CallCheckGoldenRatios ==
    /\ fv.pc = "idle"
    /\ call' = [op |-> "check_golden_ratios", tolerance |-> tol,
                outcome |-> check_golden_ratios(points, tol)]
    /\ UNCHANGED <<PLATONIC_SOLIDS, held, points, tol, fv>>

\* full_verify(points, tolerance, check_phi), statement by statement
FullVerifyCall ==
    /\ fv.pc = "idle"
    /\ \E check_phi \in BOOLEAN :
          /\ fv' = [FvIdle EXCEPT !.pc = "edge", !.tolerance = tol,
                                  !.check_phi = check_phi]
          /\ call' = FullVerifyRecord(fv', Pending)
    /\ UNCHANGED <<PLATONIC_SOLIDS, held, points, tol>>

\* r1 = verify_edge_uniformity(points, tolerance)
FullVerifyEdge ==
    /\ fv.pc = "edge"
    /\ LET o == verify_edge_uniformity(points, fv.tolerance)
       IN  fv' = [fv EXCEPT !.pc = "sphere", !.r1 = o.value,
                            !.ran = Append(@, Ran("verify_edge_uniformity", fv.tolerance, o))]
    /\ UNCHANGED <<PLATONIC_SOLIDS, held, points, tol, call>>

\* r2 = verify_on_sphere(points, tolerance); an exception ends full_verify
FullVerifySphere ==
    /\ fv.pc = "sphere"
    /\ LET o == verify_on_sphere(points, fv.tolerance)
           f == [fv EXCEPT !.ran = Append(@, Ran("verify_on_sphere", fv.tolerance, o))]
       IN  IF o.kind = "raise"
             THEN /\ call' = FullVerifyRecord(f, o)
                  /\ fv' = FvIdle
             ELSE /\ fv' = [f EXCEPT !.pc = "phi", !.r2 = o.value]
                  /\ UNCHANGED call
    /\ UNCHANGED <<PLATONIC_SOLIDS, held, points, tol>>

\* r3 = check_golden_ratios(points) if check_phi else True
FullVerifyPhi ==
    /\ fv.pc = "phi"
    /\ IF fv.check_phi
         THEN LET t == GoldenToleranceOf(fv.tolerance)
                  o == check_golden_ratios(points, t)
                  f == [fv EXCEPT !.ran = Append(@, Ran("check_golden_ratios", t, o))]
              IN  IF o.kind = "raise"
                    THEN /\ call' = FullVerifyRecord(f, o)
                         /\ fv' = FvIdle
                    ELSE /\ fv' = [f EXCEPT !.pc = "return", !.r3 = o.value]
                         /\ UNCHANGED call
         ELSE /\ fv' = [fv EXCEPT !.pc = "return", !.r3 = TRUE]
              /\ UNCHANGED call
    /\ UNCHANGED <<PLATONIC_SOLIDS, held, points, tol>>

\* return r1 and r2 and r3
FullVerifyReturn ==
    /\ fv.pc = "return"
    /\ call' = FullVerifyRecord(fv, Return(fv.r1 /\ fv.r2 /\ fv.r3))
    /\ fv' = FvIdle
    /\ UNCHANGED <<PLATONIC_SOLIDS, held, points, tol>>

Next ==
    \/ CallVerifyEdgeLengths
    \/ CallVerifyEdgeUniformity
    \/ CallVerifyOnSphere
    \/ CallCheckGoldenRatios
    \/ FullVerifyCall
    \/ FullVerifyEdge
    \/ FullVerifySphere
    \/ FullVerifyPhi
    \/ FullVerifyReturn

Spec == Init /\ [][Next]_vars

----------------------------------------------------------------------------
(* recursive_phase.py: generate_phase_rotor *)

\* Python's float is the IEEE double: finite below 2^FloatMaxExp, and zero
\* below 2^FloatMinExp
FloatMaxExp == 1024
FloatMinExp == -1074

\* theta = math.pi * (2 ** n).  2 ** n is an int for n >= 0, and the product
\* converts it to a float: OverflowError from 2^FloatMaxExp on.  math.pi lies
\* in [2, 4), so the product lies in [2^(n+1), 2^(n+2)) and rounds to inf when
\* that leaves the finite range.  For n < 0, 2 ** n is a float, zero below the
\* smallest subnormal.
Theta(n) ==
    IF n >= FloatMaxExp THEN "OverflowError"
    ELSE IF n + 2 > FloatMaxExp THEN "inf"
    ELSE IF n < FloatMinExp THEN "zero"
    ELSE "finite"

CircleSteps == 4

\* what (math.cos(theta), math.sin(theta)) can be for a finite theta: points of
\* the unit circle, to the rounding of the fixed-point unit
UnitCircle ==
    {<<c, sg * Sqrt(One * One - c * c)>> :
        c \in {k * (One \div CircleSteps) : k \in -CircleSteps..CircleSteps},
        sg \in {-1, 1}}

\* the values the math library can give for cos and sin of theta
CosSin(theta) ==
    IF theta = "zero" THEN {<<One, 0>>}
    ELSE IF theta = "finite" THEN UnitCircle
    ELSE {<<0, 0>>}

\* component / norm for every component of q
Normalize(q, norm) == [i \in DOMAIN q |-> Quot(q[i], norm)]

\* generate_phase_rotor(n), cs being the math library's (cos theta, sin theta)
generate_phase_rotor(n, cs) ==
    LET theta == Theta(n)
    IN  IF theta = "OverflowError" THEN Raise("OverflowError", <<>>)
        ELSE IF theta = "inf" THEN Raise("ValueError", <<>>)
        ELSE
          LET cos_theta == cs[1]
              sin_theta == cs[2]
              q == <<cos_theta, sin_theta, cos_theta, -sin_theta>>
              norm == Sqrt(SumSeq([i \in 1..4 |-> q[i] * q[i]]))
          IN  Return(Normalize(q, norm))

\* the exponents a caller passes: the small ones, and those within ExpMargin
\* of the two ends of the float range
MaxN == 8
ExpMargin == 3

RotorExponents ==
    (-MaxN..MaxN)
      \cup {FloatMinExp + d : d \in -ExpMargin..ExpMargin}
      \cup {FloatMaxExp + d : d \in -ExpMargin..ExpMargin}

InitCaller ==
    /\ PLATONIC_SOLIDS = HardcodedSolids
    /\ held = "none"
    /\ points = <<>>
    /\ tol = DefaultFullTolerance
    /\ call = Idle
    /\ fv = FvIdle

CallGeneratePhaseRotor ==
    /\ \E n \in RotorExponents :
          \E cs \in CosSin(Theta(n)) :
             call' = [op |-> "generate_phase_rotor", n |-> n,
                      outcome |-> generate_phase_rotor(n, cs)]
    /\ UNCHANGED <<PLATONIC_SOLIDS, held, points, tol, fv>>

SpecRotor == InitCaller /\ [][CallGeneratePhaseRotor]_vars

----------------------------------------------------------------------------
(* recursive_phase.py: stereographic_projection *)

\* PoleTest with a band of one unit of 1/SCALE around zero
PoleTestNear(denom) == Abs(denom) <= 1

\* if denom == 0
PoleTest(denom) == denom = 0

stereographic_projection(q) ==
    LET x == q[1]
        y == q[2]
        z == q[3]
        w == q[4]
        denom == One - w
    IN  IF PoleTest(denom) THEN Raise("ValueError", <<>>)
        ELSE Return(<<Quot(x, denom), Quot(y, denom), Quot(z, denom)>>)

\* the components a caller builds q from: on the unit sphere or not, at the
\* pole and one unit of 1/SCALE to either side of it
ProjComponents == {-One, 0, 1, 2 * One}
ProjPoles == {-One, 0, 1, One - 1, One, One + 1, 2 * One}

CallStereographicProjection ==
    /\ \E x \in ProjComponents, y \in ProjComponents, z \in ProjComponents, w \in ProjPoles :
          LET q == <<x, y, z, w>> IN
          call' = [op |-> "stereographic_projection", q |-> q,
                   outcome |-> stereographic_projection(q)]
    /\ UNCHANGED <<PLATONIC_SOLIDS, held, points, tol, fv>>

SpecProj == InitCaller /\ [][CallStereographicProjection]_vars

----------------------------------------------------------------------------
(* recursive_phase.py: generate_platonic_solid *)

\* A str is the sequence of its characters.
LowerLetters == <<"a", "b", "c", "d", "e", "f", "g", "h", "i", "j", "k", "l", "m", "n", "o", "p", "q", "r", "s", "t", "u", "v", "w", "x", "y", "z">>
UpperLetters == <<"A", "B", "C", "D", "E", "F", "G", "H", "I", "J", "K", "L", "M", "N", "O", "P", "Q", "R", "S", "T", "U", "V", "W", "X", "Y", "Z">>

\* the keys of the dict, spelled out
KeyChars ==
    [k \in SolidKeys |->
        CASE k = "tetrahedron" -> <<"t", "e", "t", "r", "a", "h", "e", "d", "r", "o", "n">>
          [] k = "cube" -> <<"c", "u", "b", "e">>
          [] k = "octahedron" -> <<"o", "c", "t", "a", "h", "e", "d", "r", "o", "n">>
          [] k = "icosahedron" -> <<"i", "c", "o", "s", "a", "h", "e", "d", "r", "o", "n">>
          [] k = "dodecahedron" -> <<"d", "o", "d", "e", "c", "a", "h", "e", "d", "r", "o", "n">>]

\* the characters names are built from here
Characters == Range(LowerLetters) \cup Range(UpperLetters) \cup {" ", "_"}

\* str.lower() character by character: an upper-case letter becomes its
\* lower-case letter, any other character stays
LowerChar ==
    [c \in Characters |->
        IF \E i \in DOMAIN UpperLetters : UpperLetters[i] = c
          THEN LowerLetters[CHOOSE i \in DOMAIN UpperLetters : UpperLetters[i] = c]
          ELSE c]

\* lower with the name left as given
lower_skipped(name) == name

\* name.lower()
lower(name) == [i \in DOMAIN name |-> LowerChar[name[i]]]

\* generate_platonic_solid(name) against the dict as it is now.  The list
\* returned is the dict's own list object: ref names it, value is its content
\* at the return.
generate_platonic_solid(name, solids) ==
    LET lowered == lower(name)
    IN  IF ~ \E k \in DOMAIN solids : KeyChars[k] = lowered
          THEN [Raise("ValueError", <<>>) EXCEPT !.ref = "none"]
          ELSE LET k == CHOOSE k \in DOMAIN solids : KeyChars[k] = lowered
               IN  [Return(solids[k]) EXCEPT !.ref = k]

\* The names a caller passes.
MaxUpper == 2

UpperChar ==
    [c \in Characters |->
        IF \E i \in DOMAIN LowerLetters : LowerLetters[i] = c
          THEN UpperLetters[CHOOSE i \in DOMAIN LowerLetters : LowerLetters[i] = c]
          ELSE c]

\* word with the characters at the positions U in upper case
WithUpper(word, U) == [i \in DOMAIN word |-> IF i \in U THEN UpperChar[word[i]] ELSE word[i]]

\* every key with at most MaxUpper of its letters, or all of them, in upper case
Casings ==
    UNION {
      {WithUpper(KeyChars[k], U) :
          U \in {V \in SUBSET DOMAIN KeyChars[k] : Cardinality(V) <= MaxUpper}}
        \cup {WithUpper(KeyChars[k], DOMAIN KeyChars[k])} : k \in SolidKeys}

\* names that are no key in any casing: the empty string, another word, a
\* key cut short, lengthened, padded, and with a character that is no letter
OtherNames ==
    { <<>>, <<"s", "p", "h", "e", "r", "e">>, <<"c", "u", "b">>, <<"c", "u", "b", "e", "s">>, <<" ", "c", "u", "b", "e">>, <<"c", "u", "b", "e", " ">>, <<"c", "_", "b", "e">>, <<"O", "c", "t", "a", "h", "e", "d", "r", "o">>, <<"T", "E", "T", "R", "A">> }

Names == Casings \cup OtherNames

CatalogNames ==
    {KeyChars[k] : k \in SolidKeys} \cup {<<"C", "U", "B", "E">>, <<"s", "p", "h", "e", "r", "e">>}

CallGeneratePlatonicSolid(names) ==
    /\ \E name \in names :
          LET o == generate_platonic_solid(name, PLATONIC_SOLIDS)
          IN  /\ call' = [op |-> "generate_platonic_solid", name |-> name, outcome |-> o]
              /\ held' = IF o.kind = "return" THEN o.ref ELSE held
    /\ UNCHANGED <<PLATONIC_SOLIDS, points, tol, fv>>

NextGenerate == CallGeneratePlatonicSolid(Names)

SpecGenerate == InitCaller /\ [][NextGenerate]_vars

----------------------------------------------------------------------------
(* The caller and the list it was returned *)

MaxMutations == 2

\* what the caller writes into a list
CallerPoints == {<<0, 0, 0>>}

\* how many entries of the dict's lists differ from the hardcoded ones
Mutations(solids) ==
    Cardinality({<<k, i>> \in SolidKeys \X (1..32) :
                    /\ i \in DOMAIN solids[k]
                    /\ \/ i \notin DOMAIN HardcodedSolids[k]
                       \/ solids[k][i] # HardcodedSolids[k][i]})

\* vertices.append(p) on the list the caller holds
CallerAppend ==
    /\ held # "none"
    /\ Mutations(PLATONIC_SOLIDS) < MaxMutations
    /\ \E p \in CallerPoints :
          PLATONIC_SOLIDS' = [PLATONIC_SOLIDS EXCEPT ![held] = Append(@, p)]
    /\ UNCHANGED <<held, points, tol, call, fv>>

\* vertices[i] = p on the list the caller holds
CallerOverwrite ==
    /\ held # "none"
    /\ Mutations(PLATONIC_SOLIDS) < MaxMutations
    /\ \E i \in DOMAIN PLATONIC_SOLIDS[held], p \in CallerPoints :
          /\ PLATONIC_SOLIDS[held][i] # p
          /\ PLATONIC_SOLIDS' = [PLATONIC_SOLIDS EXCEPT ![held][i] = p]
    /\ UNCHANGED <<held, points, tol, call, fv>>

NextCatalog ==
    \/ CallGeneratePlatonicSolid(CatalogNames)
    \/ CallerAppend
    \/ CallerOverwrite

SpecCatalog == InitCaller /\ [][NextCatalog]_vars

----------------------------------------------------------------------------
(* Claims *)

\* the distances between two distinct points of pts, as a set
PairDistanceSet(pts) ==
    {Dist(pts[p[1]], pts[p[2]]) :
        p \in {r \in (DOMAIN pts) \X (DOMAIN pts) : r[1] < r[2]}}

\* C1: verify_edge_uniformity at its default tolerance returns True on the
\* catalog octahedron and on the catalog cube: the diagonals, which lie more
\* than the tolerance above the shortest distance, do not make it fail.
C1_NarrowModePassesOnCatalog ==
    ( /\ call.op = "verify_edge_uniformity"
      /\ call.tolerance = DefaultUniformityTolerance
      /\ points \in {HardcodedSolids["octahedron"], HardcodedSolids["cube"]} )
    => call.outcome.kind = "return" /\ call.outcome.value = TRUE

\* C2: verify_edge_lengths returns True on fewer than 2 points, and otherwise
\* returns True exactly when every pairwise distance d within 10 * tolerance
\* of the shortest one lies within tolerance of the least such d; distances
\* above the band do not count, and the catalog cube passes.
C2_WideModeIffCandidatesAgree ==
    call.op = "verify_edge_lengths" =>
      /\ call.outcome.kind = "return"
      /\ Len(points) < 2 => call.outcome.value = TRUE
      /\ Len(points) >= 2 =>
           LET D == PairDistanceSet(points)
               candidates == {d \in D : InTol(d) <= InTol(Min(D)) + 10 * call.tolerance}
           IN  call.outcome.value =
                 (\A d \in candidates : InTol(Abs(d - Min(candidates))) <= call.tolerance)
      /\ (points = HardcodedSolids["cube"] /\ call.tolerance >= 0) => call.outcome.value = TRUE

\* verify_edge_lengths has failed on three points of the caller's, two of
\* whose distances lie in the band, more than the tolerance apart, and the
\* third above the band
C2_Witness ==
    /\ call.op = "verify_edge_lengths"
    /\ call.outcome.value = FALSE
    /\ Len(points) = 3
    /\ \E d \in PairDistanceSet(points) :
          InTol(d) > InTol(Min(PairDistanceSet(points))) + 10 * call.tolerance

\* a ratio a / b lies within tolerance of phi, a zero b counting as no match
RatioMatches(a, b, tolerance) ==
    b # 0 /\ InTol(Abs(Abs(Quot(a, b)) - phi)) < tolerance

\* C3: check_golden_ratios (at a tolerance above zero) never fails on a zero
\* coordinate: it returns, and returns True exactly when some point has one of
\* |x/y|, |y/z|, |x/z| within tolerance of phi, a zero denominator being no
\* match; on the catalog icosahedron it returns True.
C3_GoldenRatioExistenceCheck ==
    (call.op = "check_golden_ratios" /\ call.tolerance > 0) =>
      /\ call.outcome.kind = "return"
      /\ call.outcome.value =
           (\E i \in DOMAIN points :
               \/ RatioMatches(points[i][1], points[i][2], call.tolerance)
               \/ RatioMatches(points[i][2], points[i][3], call.tolerance)
               \/ RatioMatches(points[i][1], points[i][3], call.tolerance))
      /\ (points = HardcodedSolids["icosahedron"] /\ call.tolerance = DefaultGoldenTolerance)
           => call.outcome.value = TRUE

Verifiers ==
    {"verify_edge_lengths", "verify_edge_uniformity", "verify_on_sphere",
     "check_golden_ratios", "full_verify"}

\* C4: a verifier that has ended (called at a tolerance above zero) has
\* returned a boolean, never raised; on the empty set and on one point,
\* verify_edge_uniformity, verify_on_sphere and full_verify without the
\* golden-ratio check return True.
C4_VerifiersNeverRaise ==
    (call.op \in Verifiers /\ call.outcome.kind # "pending" /\ call.tolerance > 0) =>
      /\ call.outcome.kind = "return"
      /\ call.outcome.value \in BOOLEAN
      /\ ( /\ Len(points) <= 1
           /\ \/ call.op \in {"verify_edge_uniformity", "verify_on_sphere"}
              \/ call.op = "full_verify" /\ ~ call.check_phi )
         => call.outcome.value = TRUE

\* C5: generate_phase_rotor returns for every integer n, and what it returns
\* has norm 1 (to the rounding of the fixed-point unit).
C5_RotorTotalWithUnitNorm ==
    call.op = "generate_phase_rotor" =>
      /\ call.outcome.kind = "return"
      /\ Abs(Sqrt(SumSeq([i \in 1..4 |-> call.outcome.value[i] * call.outcome.value[i]])) - One) <= 2

\* two strings are equal up to the case of their letters
SameIgnoringCase(a, b) ==
    /\ Len(a) = Len(b)
    /\ \A i \in DOMAIN a :
          \/ a[i] = b[i]
          \/ \E j \in DOMAIN LowerLetters :
                {a[i], b[i]} = {LowerLetters[j], UpperLetters[j]}

VertexCount ==
    [k \in SolidKeys |->
        CASE k = "tetrahedron" -> 4
          [] k = "cube" -> 8
          [] k = "octahedron" -> 6
          [] k = "icosahedron" -> 12
          [] k = "dodecahedron" -> 20]

\* C6: generate_platonic_solid returns exactly when the name is, up to the
\* case of its letters, one of the five keys, and then returns that key's
\* vertex list (4, 8, 6, 12, 20 vertices) whatever the casing; for any other
\* string it raises ValueError and returns no list.
C6_GenerateIffKeyInAnyCasing ==
    call.op = "generate_platonic_solid" =>
      LET matching == {k \in SolidKeys : SameIgnoringCase(call.name, KeyChars[k])}
      IN  /\ (call.outcome.kind = "return") = (matching # {})
          /\ call.outcome.kind = "return" =>
               /\ call.outcome.ref \in matching
               /\ call.outcome.value = HardcodedSolids[call.outcome.ref]
               /\ Len(call.outcome.value) = VertexCount[call.outcome.ref]
          /\ call.outcome.kind # "return" =>
               /\ call.outcome.kind = "raise"
               /\ call.outcome.error = "ValueError"
               /\ call.outcome.ref = "none"

\* a name with an upper-case letter has been given, and a list returned
C6_Witness ==
    /\ call.op = "generate_platonic_solid"
    /\ call.outcome.kind = "return"
    /\ call.name # KeyChars[call.outcome.ref]
    /\ Len(call.outcome.value) = 12

\* C7: stereographic_projection raises ValueError exactly when w = 1; for any
\* other q, of unit norm or not, it returns (x/(1-w), y/(1-w), z/(1-w)), each
\* quotient rounded toward zero; (0,0,0,0) gives (0,0,0).
C7_ProjectionRaisesIffAtPole ==
    call.op = "stereographic_projection" =>
      LET w == call.q[4]
      IN  /\ (call.outcome.kind = "raise") = (w = One)
          /\ call.outcome.kind = "raise" => call.outcome.error = "ValueError"
          /\ call.outcome.kind # "raise" =>
               /\ call.outcome.kind = "return"
               /\ \A i \in 1..3 :
                     LET v == call.outcome.value[i]
                         r == call.q[i] * One - v * (One - w)
                     IN  /\ Abs(r) < Abs(One - w)
                         /\ r = 0 \/ (r < 0) = (call.q[i] < 0)
          /\ call.q = <<0, 0, 0, 0>> => call.outcome.value = <<0, 0, 0>>

\* the projection has been asked for at the pole (0, 0, 0, 1), and has raised
C7_Witness ==
    /\ call.op = "stereographic_projection"
    /\ call.q = <<0, 0, 0, One>>
    /\ call.outcome.kind = "raise"

\* C8: a full_verify call that has ended (called at a tolerance above zero)
\* has run verify_edge_uniformity, then verify_on_sphere, then
\* check_golden_ratios if and only if check_phi, and has returned the
\* conjunction of what they returned.
C8_FullVerifyReturnsConjunction ==
    (call.op = "full_verify" /\ call.outcome.kind # "pending" /\ call.tolerance > 0) =>
      /\ [i \in DOMAIN call.ran |-> call.ran[i].fn] =
           <<"verify_edge_uniformity", "verify_on_sphere">>
             \o (IF call.check_phi THEN <<"check_golden_ratios">> ELSE <<>>)
      /\ call.outcome.kind = "return"
      /\ call.outcome.value = (\A i \in DOMAIN call.ran : call.ran[i].outcome.value)

\* C9: whatever the caller did with the lists it was returned, a
\* generate_platonic_solid call returns the hardcoded vertices of the solid.
C9_CatalogUnchangedByCaller ==
    (call.op = "generate_platonic_solid" /\ call.outcome.kind = "return") =>
      call.outcome.value = HardcodedSolids[call.outcome.ref]

\* the checks the latest full_verify call has run so far
ChecksRun ==
    IF fv.pc # "idle" THEN fv.ran
    ELSE IF call.op = "full_verify" THEN call.ran
    ELSE <<>>

\* C10: the golden-ratio check full_verify runs is run at 1e-3, the default of
\* check_golden_ratios, whatever tolerance full_verify was given, and its
\* outcome is that of check_golden_ratios(points) at that default.
C10_GoldenCheckAtItsOwnDefault ==
    \A i \in DOMAIN ChecksRun :
       ChecksRun[i].fn = "check_golden_ratios" =>
         /\ ChecksRun[i].tolerance = DefaultGoldenTolerance
         /\ ChecksRun[i].outcome = check_golden_ratios(points, DefaultGoldenTolerance)

\* full_verify has returned after a golden-ratio check that passed, on points
\* where the check would have failed at the tolerance full_verify was given
C10_Witness ==
    /\ call.op = "full_verify"
    /\ call.check_phi
    /\ call.outcome.kind = "return"
    /\ call.tolerance > 0
    /\ call.tolerance # DefaultGoldenTolerance
    /\ call.r3 = TRUE
    /\ check_golden_ratios(points, call.tolerance).value = FALSE

====
